---- MODULE Spec2Model ----
(***************************************************************************)
(* pazuzu: resolution of feature dependencies against a git-backed feature *)
(* store (storageconnector, GitStorage.Resolve / resolve) and composition  *)
(* of a Dockerfile from the resolved features (generateDockerfile and      *)
(* DockerfileWriter).                                                      *)
(*                                                                         *)
(* Errors are modelled as the tuple of message parts the Go error is       *)
(* built from; the nil error is the empty tuple.  An error "names" a       *)
(* feature when the feature's name is one of its parts.                    *)
(***************************************************************************)
EXTENDS Naturals, Sequences, FiniteSets, TLC

VARIABLES
    commit,     \* the HEAD commit's features/ tree: name -> meta.yml content
    names,      \* Resolve: the names argument
    pc,         \* Resolve: "idle", "loop" (inside the range loop) or "done"
    idx,        \* Resolve: position of the range loop over names
    stack,      \* resolve: the active calls, outermost first
    slice,      \* Resolve: var slice []string
    result,     \* Resolve: result map[string]shared.Feature
    fetched,    \* the names getFeature was called with, in call order
    ret,        \* Resolve: the returned (slice, map, error)
    baseImage,  \* the base image the caller of Generate selects
    fs,         \* Generate: the features the registry answered with
    dockerfile, \* Pazuzu.dockerfile: the strings written to it, in order
    testSpec,   \* the file at Pazuzu.testSpec: NoFile or its JSON value
    genPc,      \* Generate: "idle" or "done"
    genErr,     \* Generate: the returned error
    buf,        \* DockerfileWriter.buf: the strings written to it, in order
    wcall,      \* DockerfileWriter: the last method call and its argument
    werr,       \* DockerfileWriter: the error the last call returned
    ncalls,     \* DockerfileWriter: the number of calls made
    tpc,        \* RunTestSpec: "idle", "exec" (the range loop) or "done"
    plan,       \* RunTestSpec: specs, as readTestSpec returned them
    ti,         \* RunTestSpec: position of the range loop over specs
    failedTests,\* RunTestSpec: failedTests
    container,  \* the container of the run: its ID and its state
    runtime,    \* the calls made to the docker client, in order
    testErr     \* RunTestSpec: the returned error

resolveVars == <<commit, names, pc, idx, stack, slice, result, fetched, ret>>

composeVars == <<baseImage, fs, dockerfile, testSpec, genPc, genErr>>

writerVars == <<buf, wcall, werr, ncalls>>

testVars == <<tpc, plan, ti, failedTests, container, runtime, testErr>>

vars == <<resolveVars, composeVars, writerVars, testVars>>

-----------------------------------------------------------------------------
(* Bounds *)

MaxDeps == 2        \* longest Dependencies list of one feature
MaxEdges == 3       \* dependency entries in the whole store
MaxNames == 2       \* longest names argument of Resolve
MaxDepth == 4       \* deepest recursion of resolve that is followed
MaxFeatures == 2    \* longest feature list the registry answers with
MaxLines == 2       \* most directives in one feature snippet
MaxCalls == 2       \* calls made on one DockerfileWriter
MaxPlan == 2        \* longest feature list of a build that is verified

FeatureNames == {"A", "B", "C"}

-----------------------------------------------------------------------------
(* Values *)

nil == <<>>

ErrFileNotFound == <<"file not found">>

ErrHead == <<"reference not found">>

EmptyMap == [n \in {} |-> nil]

SeqsUpTo(S, n) == UNION {[1..k -> S] : k \in 0..n}

Range(s) == {s[i] : i \in 1..Len(s)}

RECURSIVE SumLen(_, _)
SumLen(f, S) ==
    IF S = {} THEN 0
    ELSE LET n == CHOOSE m \in S : TRUE
         IN Len(f[n].Dependencies) + SumLen(f, S \ {n})

\* The feature directories a commit can hold: any subset of the names, each
\* with a meta.yml listing dependencies (present or not, repeated or not).
Commits ==
    {c \in UNION {[S -> [Dependencies : SeqsUpTo(FeatureNames, MaxDeps)]] :
                    S \in SUBSET FeatureNames} :
        SumLen(c, DOMAIN c) <= MaxEdges}

NameLists == SeqsUpTo(FeatureNames, MaxNames)

\* features/<name>/Dockerfile, where the directory has one.  A snippet is
\* the sequence of its directives, a directive the sequence of its words;
\* the empty snippet is the empty string.
featureSnippet(name) ==
    CASE name = "A" -> <<<<"RUN", "a">>>>
      [] name = "C" -> <<<<"COPY", "f", "/f">>>>
      [] OTHER -> <<>>

hasSnippet(name) == name \in {"A", "C"}

NoMeta == [Name |-> "", Dependencies |-> <<>>]

NoFeature == [Meta |-> NoMeta, Snippet |-> <<>>, TestSnippet |-> ""]

-----------------------------------------------------------------------------
(* storageconnector: reading one feature from a commit *)

getMeta(c, name) ==
    IF name \notin DOMAIN c
    THEN [val |-> NoMeta, err |-> ErrFileNotFound]
    ELSE [val |-> [Name |-> name, Dependencies |-> c[name].Dependencies],
          err |-> nil]

\* Reading the files of a feature directory that exists is taken to
\* succeed; a missing meta.yml is the error of commit.File.
getFeature(c, name) ==
    LET m == getMeta(c, name) IN
    IF m.err # nil THEN [val |-> NoFeature, err |-> m.err]
    ELSE IF ~hasSnippet(name)
    THEN [val |-> [Meta |-> m.val, Snippet |-> <<>>, TestSnippet |-> ""],
          err |-> nil]
    ELSE [val |-> [Meta |-> m.val, Snippet |-> featureSnippet(name),
                   TestSnippet |-> ""],
          err |-> nil]

-----------------------------------------------------------------------------
(* storageconnector: Resolve and the recursive resolve *)

\* the early return on a resolved name left out
resolvedNever(res, name) == FALSE

\* a name counts as resolved as soon as a call for it is in progress
resolvedOrInProgress(res, name) ==
    name \in DOMAIN res \/ \E i \in 1..Len(stack) : stack[i].name = name

\* if _, ok := result[name]; ok
resolved(res, name) == name \in DOMAIN res

\* the range over the dependencies misses the first one
dependenciesButFirst(feature) ==
    IF feature.Meta.Dependencies = <<>> THEN <<>>
    ELSE Tail(feature.Meta.Dependencies)

\* for _, depName := range feature.Meta.Dependencies
dependencies(feature) == feature.Meta.Dependencies

\* the name put in front of the list instead of at its end
prependName(list, name) == <<name>> \o list

\* *list = append(*list, name)
appendName(list, name) == Append(list, name)

\* the map entry never written
insertNothing(res, name, feature) == res

\* result[name] = feature
insert(res, name, feature) ==
    [n \in DOMAIN res \cup {name} |-> IF n = name THEN feature ELSE res[n]]

\* return []string{}, map[string]shared.Feature{}, err
failure(err) == [slice |-> <<>>, result |-> EmptyMap, err |-> err]

NoReturn == [slice |-> <<>>, result |-> EmptyMap, err |-> nil]

\* A call resolve(commit, name, list, result) made when the callers above
\* it are `callers`: it returns at once when the name is resolved, makes
\* every caller return the error when the fetch fails, and otherwise
\* becomes the innermost active call, about to range over its dependencies.
resolveCall(name, callers) ==
    IF resolved(result, name)
    THEN /\ stack' = callers
         /\ UNCHANGED <<pc, fetched, ret>>
    ELSE LET f == getFeature(commit, name) IN
         /\ fetched' = Append(fetched, name)
         /\ IF f.err # nil
            THEN /\ stack' = <<>>
                 /\ pc' = "done"
                 /\ ret' = failure(f.err)
            ELSE /\ stack' = Append(callers,
                                    [name |-> name, feature |-> f.val, dep |-> 1])
                 /\ UNCHANGED <<pc, ret>>

\* Resolve(names...): latestCommit, then the range loop is entered.
Resolve(ns) ==
    /\ pc = "idle"
    /\ names' = ns
    /\ \E headOk \in BOOLEAN :
         IF headOk
         THEN /\ pc' = "loop"
              /\ UNCHANGED ret
         ELSE /\ pc' = "done"
              /\ ret' = failure(ErrHead)
    /\ UNCHANGED <<commit, idx, stack, slice, result, fetched>>
    /\ UNCHANGED <<composeVars, writerVars, testVars>>

\* for _, name := range names { err = resolve(commit, name, &slice, result)
ResolveLoop ==
    /\ pc = "loop"
    /\ stack = <<>>
    /\ idx <= Len(names)
    /\ idx' = idx + 1
    /\ resolveCall(names[idx], <<>>)
    /\ UNCHANGED <<commit, names, slice, result>>
    /\ UNCHANGED <<composeVars, writerVars, testVars>>

\* for _, depName := range feature.Meta.Dependencies { err = resolve(...)
ResolveDep ==
    /\ pc = "loop"
    /\ stack # <<>>
    /\ Len(stack) < MaxDepth
    /\ LET top == stack[Len(stack)]
           deps == dependencies(top.feature)
       IN /\ top.dep <= Len(deps)
          /\ resolveCall(deps[top.dep],
                         [stack EXCEPT ![Len(stack)].dep = top.dep + 1])
    /\ UNCHANGED <<commit, names, idx, slice, result>>
    /\ UNCHANGED <<composeVars, writerVars, testVars>>

\* *list = append(*list, name); result[name] = feature; return nil
ResolveAppend ==
    /\ pc = "loop"
    /\ stack # <<>>
    /\ LET top == stack[Len(stack)]
       IN /\ top.dep > Len(dependencies(top.feature))
          /\ slice' = appendName(slice, top.name)
          /\ result' = insert(result, top.name, top.feature)
    /\ stack' = SubSeq(stack, 1, Len(stack) - 1)
    /\ UNCHANGED <<commit, names, pc, idx, fetched, ret>>
    /\ UNCHANGED <<composeVars, writerVars, testVars>>

\* return slice, result, nil
ResolveReturn ==
    /\ pc = "loop"
    /\ stack = <<>>
    /\ idx > Len(names)
    /\ pc' = "done"
    /\ ret' = [slice |-> slice, result |-> result, err |-> nil]
    /\ UNCHANGED <<commit, names, idx, stack, slice, result, fetched>>
    /\ UNCHANGED <<composeVars, writerVars, testVars>>

-----------------------------------------------------------------------------
(* cli/pazuzu: Generate, generateDockerfile, generateTestSpec *)

BaseImages == {"ubuntu", "ubuntu:latest", "alpine"}

ComposeNames == {"A", "B"}

DockerDatas == {"", "RUN a", "COPY f /f"}

TestInstructions == {"", "test -f /f"}

\* type Feature struct { Name, DockerData, TestInstruction }
Features ==
    [Name : ComposeNames, DockerData : DockerDatas,
     TestInstruction : TestInstructions]

FeatureLists == SeqsUpTo(Features, MaxFeatures)

ErrRegistry == <<"registry request failed">>

ErrCreate == <<"open test spec: permission denied">>

\* the registry's answers: an error or a feature list
Answers ==
    {[err |-> ErrRegistry, features |-> <<>>]}
        \cup {[err |-> nil, features |-> f] : f \in FeatureLists}

NoFile == [exists |-> FALSE]

\* bytes.Buffer.Bytes(): the written strings, one after the other
RECURSIVE Bytes(_)
Bytes(chunks) ==
    IF chunks = <<>> THEN "" ELSE chunks[1] \o Bytes(Tail(chunks))

\* buf.WriteString("FROM ubuntu:latest\n")
header == "FROM ubuntu:latest\n"

\* buf.WriteString(fmt.Sprintf("# %s\n", feature.Name))
comment(feature) == "# " \o feature.Name \o "\n"

\* buf.WriteString(fmt.Sprintf("%s\n", feature.DockerData))
snippet(feature) == feature.DockerData \o "\n"

\* the range over the features taken from the last one to the first
RECURSIVE blocksReversed(_)
blocksReversed(features) ==
    IF features = <<>> THEN <<>>
    ELSE blocksReversed(Tail(features))
            \o <<comment(features[1]), snippet(features[1])>>

\* for _, feature := range features { comment, snippet }
RECURSIVE blocks(_)
blocks(features) ==
    IF features = <<>> THEN <<>>
    ELSE <<comment(features[1]), snippet(features[1])>>
            \o blocks(Tail(features))

\* generateDockerfile(features): header, feature blocks, CMD
generateDockerfile(features) ==
    <<header>> \o blocks(features) \o <<"CMD /bin/bash\n">>

\* json.NewEncoder(f).Encode(specs): a nil slice is written as null, any
\* other as the array of its {"feature": ..., "cmd": ...} objects
Encode(specs) ==
    IF specs = <<>> THEN [json |-> "null"]
    ELSE [json |-> "array",
          items |-> [i \in 1..Len(specs) |->
                       [feature |-> specs[i].Feature, cmd |-> specs[i].Cmd]]]

\* a plan that records only the features that have a test instruction
testSpecsSkipEmpty(features) ==
    LET all == [i \in 1..Len(features) |->
                  [Feature |-> features[i].Name,
                   Cmd |-> features[i].TestInstruction]]
        hasCmd(s) == s.Cmd # ""
    IN SelectSeq(all, hasCmd)

\* for _, feature := range features { specs = append(specs, TestSpec{...}) }
testSpecs(features) ==
    [i \in 1..Len(features) |->
        [Feature |-> features[i].Name, Cmd |-> features[i].TestInstruction]]

\* Generate: getFeatures, generateDockerfile, generateTestSpec.  The
\* registry answers with an error or with a feature list; creating the
\* test spec file succeeds or fails.  `base` is the image the caller wants
\* the build to start from; Generate has no parameter that takes it.
Generate(base, answer, createOk) ==
    /\ genPc = "idle"
    /\ genPc' = "done"
    /\ baseImage' = base
    /\ IF answer.err # nil
       THEN /\ genErr' = answer.err
            /\ UNCHANGED <<fs, dockerfile, testSpec>>
       ELSE /\ fs' = answer.features
            /\ dockerfile' = generateDockerfile(answer.features)
            /\ IF createOk
               THEN /\ testSpec' =
                        [exists |-> TRUE,
                         content |-> Encode(testSpecs(answer.features))]
                    /\ genErr' = nil
               ELSE /\ testSpec' = testSpec
                    /\ genErr' = ErrCreate
    /\ UNCHANGED <<resolveVars, writerVars, testVars>>

-----------------------------------------------------------------------------
(* pazuzu: DockerfileWriter *)

ErrInvalidCopyCmdSyntax == <<"Invalid 'COPY' command syntax">>

ErrParse == <<"ENV must have two arguments">>

\* The directives of the modelled snippets: one that is no COPY, a COPY
\* with source and destination, one with a further word, one with a single
\* word, one with none, and an ENV the Dockerfile parser rejects.
Directives ==
    { <<"RUN", "a">>, <<"COPY", "f", "/d">>, <<"COPY", "f", "g", "/d">>,
      <<"COPY", "f">>, <<"COPY">>, <<"ENV", "k">> }

\* the snippets: up to MaxLines different directives, in any order
Snippets ==
    {sn \in SeqsUpTo(Directives, MaxLines) :
        \A i, j \in 1..Len(sn) : sn[i] = sn[j] => i = j}

\* shared.Feature values handed to the writer
WriterFeatures ==
    {[Meta |-> [Name |-> n, Dependencies |-> <<>>], Snippet |-> sn,
      TestSnippet |-> ""] : n \in ComposeNames, sn \in Snippets}

RawChunks == {"FROM ubuntu"}

\* the words of a directive as the line of text they were read from
RECURSIVE Unwords(_)
Unwords(words) ==
    IF words = <<>> THEN ""
    ELSE IF Len(words) = 1 THEN words[1]
    ELSE words[1] \o " " \o Unwords(Tail(words))

\* the parser's node value: the instruction in lower case
Lower(word) ==
    CASE word = "COPY" -> "copy"
      [] word = "RUN" -> "run"
      [] word = "ENV" -> "env"
      [] OTHER -> word

\* parser.Parse: one child node per directive, holding the instruction
\* (Value), its arguments (the Next chain) and the line (Original); an ENV
\* with a single word is a parse error
Parse(sn) ==
    IF \E i \in 1..Len(sn) : sn[i][1] = "ENV" /\ Len(sn[i]) < 3
    THEN [ast |-> <<>>, err |-> ErrParse]
    ELSE [ast |-> [i \in 1..Len(sn) |->
                     [Value |-> Lower(sn[i][1]), Next |-> Tail(sn[i]),
                      Original |-> Unwords(sn[i])]],
          err |-> nil]

\* the COPY line written back without the feature's directory
fixCopyCmdUnprefixed(node, feature) ==
    IF Len(node.Next) < 2
    THEN [val |-> "", err |-> ErrInvalidCopyCmdSyntax]
    ELSE [val |-> "COPY " \o node.Next[1] \o " " \o node.Next[2], err |-> nil]

fixCopyCmd(node, feature) ==
    IF node.Next = <<>>
    THEN [val |-> "", err |-> ErrInvalidCopyCmdSyntax]
    ELSE IF Tail(node.Next) = <<>>
    THEN [val |-> "", err |-> ErrInvalidCopyCmdSyntax]
    ELSE [val |-> "COPY " \o feature.Meta.Name \o "/" \o node.Next[1]
                     \o " " \o node.Next[2],
          err |-> nil]

\* c.buf.WriteString(chunk + "\n")
appendRaw(b, chunk) == Append(b, chunk \o "\n")

\* for _, cmdNode := range ast.Children: the buffer and the error after the
\* nodes from position i on
RECURSIVE appendNodes(_, _, _, _)
appendNodes(b, ast, i, feature) ==
    IF i > Len(ast) THEN [buf |-> b, err |-> nil]
    ELSE IF ast[i].Value = "copy"
    THEN LET fixed == fixCopyCmd(ast[i], feature) IN
         IF fixed.err # nil THEN [buf |-> b, err |-> fixed.err]
         ELSE appendNodes(appendRaw(b, fixed.val), ast, i + 1, feature)
    ELSE appendNodes(appendRaw(b, ast[i].Original), ast, i + 1, feature)

\* A composition gives up at the first error, so no call follows a failed
\* one.
WriterCall ==
    /\ ncalls < MaxCalls
    /\ werr = nil
    /\ ncalls' = ncalls + 1

AppendRaw(chunk) ==
    /\ WriterCall
    /\ buf' = appendRaw(buf, chunk)
    /\ wcall' = [op |-> "AppendRaw", chunk |-> chunk]
    /\ werr' = nil
    /\ UNCHANGED <<resolveVars, composeVars, testVars>>

AppendFeature(feature) ==
    /\ WriterCall
    /\ wcall' = [op |-> "AppendFeature", feature |-> feature]
    /\ LET parsed == Parse(feature.Snippet) IN
       IF parsed.err # nil
       THEN /\ werr' = parsed.err
            /\ buf' = buf
       ELSE LET r == appendNodes(buf, parsed.ast, 1, feature) IN
            /\ werr' = r.err
            /\ buf' = r.buf
    /\ UNCHANGED <<resolveVars, composeVars, testVars>>

-----------------------------------------------------------------------------
(* cli/pazuzu: readTestSpec, dockerStart, dockerExec, dockerStop, RunTestSpec *)

ErrOpen == <<"open test spec: no such file or directory">>

ErrDecode == <<"invalid character">>

ErrNewClient == <<"invalid endpoint">>

ErrCreateContainer == <<"no such image">>

ErrStartContainer == <<"cannot start container">>

ErrCreateExec == <<"cannot create exec">>

ErrStartExec == <<"cannot start exec">>

ErrInspectExec == <<"cannot inspect exec">>

ErrStopContainer == <<"cannot stop container">>

ErrRemoveContainer == <<"cannot remove container">>

\* a test spec file that holds no JSON
CorruptFile == [exists |-> TRUE, content |-> [json |-> "corrupt"]]

ContainerIDs == {"c1", "c2"}

NoContainer == [ID |-> "", state |-> "none"]

\* what the docker client can answer to dockerStart
StartOutcomes == {"ok", "NewClient", "CreateContainer", "StartContainer"}

\* what the docker client can answer to dockerExec: one of its three
\* calls fails, or the instruction ran and exited with a status
ExecOutcomes ==
    {[fail |-> f, exit |-> 0] : f \in {"CreateExec", "StartExec", "InspectExec"}}
        \cup {[fail |-> "none", exit |-> c] : c \in {0, 1, 2}}

\* what the docker client can answer to dockerStop
StopOutcomes == {"ok", "StopContainer", "RemoveContainer"}

ExitText(c) == CASE c = 0 -> "0" [] c = 1 -> "1" [] OTHER -> "2"

\* dec.Decode(&specs): null is the nil slice, an array gives one TestSpec
\* per object, from its "feature" and "cmd" members
Decode(content) ==
    IF content.json = "null" THEN [val |-> <<>>, err |-> nil]
    ELSE IF content.json = "array"
    THEN [val |-> [i \in 1..Len(content.items) |->
                     [Feature |-> content.items[i].feature,
                      Cmd |-> content.items[i].cmd]],
          err |-> nil]
    ELSE [val |-> <<>>, err |-> ErrDecode]

readTestSpec(file) ==
    IF ~file.exists THEN [val |-> <<>>, err |-> ErrOpen]
    ELSE Decode(file.content)

\* one call to the docker client: its arguments, whether it returned
\* without error and, for InspectExec, the ExitCode it reported
call(api, arg, ok) == [api |-> api, arg |-> arg, ok |-> ok, exit |-> 0]

\* a start that reports a running container whatever the client answered
dockerStartUnchecked(id, outcome) ==
    [calls |-> <<call("CreateContainer", id, TRUE),
                 call("StartContainer", id, outcome = "ok")>>,
     container |-> [ID |-> id, state |-> "running"],
     err |-> nil]

\* dockerStart(image): the client calls made, the container and the error
dockerStart(id, outcome) ==
    IF outcome = "NewClient"
    THEN [calls |-> <<>>, container |-> NoContainer, err |-> ErrNewClient]
    ELSE IF outcome = "CreateContainer"
    THEN [calls |-> <<call("CreateContainer", "", FALSE)>>,
          container |-> NoContainer, err |-> ErrCreateContainer]
    ELSE IF outcome = "StartContainer"
    THEN [calls |-> <<call("CreateContainer", id, TRUE),
                      call("StartContainer", id, FALSE)>>,
          container |-> [ID |-> id, state |-> "created"],
          err |-> ErrStartContainer]
    ELSE [calls |-> <<call("CreateContainer", id, TRUE),
                      call("StartContainer", id, TRUE)>>,
          container |-> [ID |-> id, state |-> "running"],
          err |-> nil]

\* dockerExec(ID, cmd): the client calls made and the error
dockerExec(id, cmd, outcome) ==
    IF outcome.fail = "CreateExec"
    THEN [calls |-> <<call("CreateExec", <<id, cmd>>, FALSE)>>,
          err |-> ErrCreateExec]
    ELSE IF outcome.fail = "StartExec"
    THEN [calls |-> <<call("CreateExec", <<id, cmd>>, TRUE),
                      call("StartExec", <<id, cmd>>, FALSE)>>,
          err |-> ErrStartExec]
    ELSE IF outcome.fail = "InspectExec"
    THEN [calls |-> <<call("CreateExec", <<id, cmd>>, TRUE),
                      call("StartExec", <<id, cmd>>, TRUE),
                      call("InspectExec", <<id, cmd>>, FALSE)>>,
          err |-> ErrInspectExec]
    ELSE [calls |-> <<call("CreateExec", <<id, cmd>>, TRUE),
                      call("StartExec", <<id, cmd>>, TRUE),
                      [call("InspectExec", <<id, cmd>>, TRUE)
                          EXCEPT !.exit = outcome.exit]>>,
          err |-> IF outcome.exit > 0
                  THEN <<"exit code", ExitText(outcome.exit)>>
                  ELSE nil]

\* dockerStop(ID): the client calls made, the container's state and the error
dockerStop(c, outcome) ==
    IF outcome = "StopContainer"
    THEN [calls |-> <<call("StopContainer", c.ID, FALSE)>>,
          container |-> c, err |-> ErrStopContainer]
    ELSE IF outcome = "RemoveContainer"
    THEN [calls |-> <<call("StopContainer", c.ID, TRUE),
                      call("RemoveContainer", c.ID, FALSE)>>,
          container |-> [c EXCEPT !.state = "stopped"],
          err |-> ErrRemoveContainer]
    ELSE [calls |-> <<call("StopContainer", c.ID, TRUE),
                      call("RemoveContainer", c.ID, TRUE)>>,
          container |-> [c EXCEPT !.state = "removed"],
          err |-> nil]

\* err = p.dockerExec(...); if err != nil { failedTests++ }
countFailure(n, err) == IF err # nil THEN n + 1 ELSE n

\* if failedTests > 0 { return fmt.Errorf("number of failing tests: %d", ...) }
verdict(n) ==
    IF n > 0 THEN <<"number of failing tests", ExitText(n)>> ELSE nil

\* a loop that leaves at the first failing entry
advanceUntilFailure(i, specs, err) ==
    IF err # nil THEN Len(specs) + 1 ELSE i + 1

\* for _, spec := range specs: the loop body has no break and no return,
\* the next entry follows whatever dockerExec returned
advance(i, specs, err) == i + 1

\* RunTestSpec(image): readTestSpec and dockerStart, up to the range loop
RunTestSpec(id, outcome) ==
    /\ tpc = "idle"
    /\ LET specs == readTestSpec(testSpec) IN
       IF specs.err # nil
       THEN /\ tpc' = "done"
            /\ testErr' = specs.err
            /\ UNCHANGED <<plan, container, runtime>>
       ELSE LET started == dockerStart(id, outcome) IN
            /\ plan' = specs.val
            /\ runtime' = runtime \o started.calls
            /\ container' = started.container
            /\ IF started.err # nil
               THEN /\ tpc' = "done"
                    /\ testErr' = started.err
               ELSE /\ tpc' = "exec"
                    /\ UNCHANGED testErr
    /\ UNCHANGED <<ti, failedTests>>
    /\ UNCHANGED <<resolveVars, composeVars, writerVars>>

\* for _, spec := range specs { err = p.dockerExec(container.ID, spec.Cmd) ...
RunExec(outcome) ==
    /\ tpc = "exec"
    /\ ti <= Len(plan)
    /\ LET r == dockerExec(container.ID, plan[ti].Cmd, outcome) IN
       /\ runtime' = runtime \o r.calls
       /\ failedTests' = countFailure(failedTests, r.err)
       /\ ti' = advance(ti, plan, r.err)
    /\ UNCHANGED <<tpc, plan, container, testErr>>
    /\ UNCHANGED <<resolveVars, composeVars, writerVars>>

\* err = p.dockerStop(container.ID) ... return
RunStop(outcome) ==
    /\ tpc = "exec"
    /\ ti > Len(plan)
    /\ LET r == dockerStop(container, outcome) IN
       /\ runtime' = runtime \o r.calls
       /\ container' = r.container
       /\ testErr' = IF r.err # nil THEN r.err ELSE verdict(failedTests)
    /\ tpc' = "done"
    /\ UNCHANGED <<plan, ti, failedTests>>
    /\ UNCHANGED <<resolveVars, composeVars, writerVars>>

-----------------------------------------------------------------------------
(* Specifications *)

NoCommit == [n \in {} |-> nil]

ResolveIdle ==
    /\ names = <<>>
    /\ pc = "idle"
    /\ idx = 1
    /\ stack = <<>>
    /\ slice = <<>>
    /\ result = EmptyMap
    /\ fetched = <<>>
    /\ ret = NoReturn

GenerateIdle ==
    /\ baseImage = ""
    /\ fs = <<>>
    /\ dockerfile = <<>>
    /\ testSpec = NoFile
    /\ genPc = "idle"
    /\ genErr = nil

\* NewDockerfileWriter
WriterNew ==
    /\ buf = <<>>
    /\ wcall = [op |-> "NewDockerfileWriter"]
    /\ werr = nil
    /\ ncalls = 0

TestIdle ==
    /\ tpc = "idle"
    /\ plan = <<>>
    /\ ti = 1
    /\ failedTests = 0
    /\ container = NoContainer
    /\ runtime = <<>>
    /\ testErr = nil

Init ==
    /\ commit \in Commits
    /\ ResolveIdle
    /\ GenerateIdle
    /\ WriterNew
    /\ TestIdle

Next ==
    \/ \E ns \in NameLists : Resolve(ns)
    \/ ResolveLoop
    \/ ResolveDep
    \/ ResolveAppend
    \/ ResolveReturn

Spec == Init /\ [][Next]_vars

\* A call of Resolve that is running keeps running: it takes its next step
\* as long as it has one.
SpecFair == Spec /\ WF_vars(Next)

InitCompose ==
    /\ commit = NoCommit
    /\ ResolveIdle
    /\ GenerateIdle
    /\ WriterNew
    /\ TestIdle

NextCompose ==
    \E base \in BaseImages, answer \in Answers, createOk \in BOOLEAN :
        Generate(base, answer, createOk)

SpecCompose == InitCompose /\ [][NextCompose]_vars

NextWriter ==
    \/ \E chunk \in RawChunks : AppendRaw(chunk)
    \/ \E feature \in WriterFeatures : AppendFeature(feature)

SpecWriter == InitCompose /\ [][NextWriter]_vars

\* The build command followed by its verification, or the verify command
\* on its own: the test spec file is then whatever an earlier build left.
InitVerify ==
    /\ commit = NoCommit
    /\ ResolveIdle
    /\ WriterNew
    /\ TestIdle
    /\ baseImage = ""
    /\ fs = <<>>
    /\ dockerfile = <<>>
    /\ testSpec \in {NoFile, CorruptFile}
    /\ genPc = "idle"
    /\ genErr = nil

\* the registry's answers of the verified builds: the features differ in
\* name and test instruction
VerifyAnswers ==
    {a \in Answers :
        /\ Len(a.features) <= MaxPlan
        /\ \A i \in 1..Len(a.features) : a.features[i].DockerData = ""}

NextVerify ==
    \/ \E answer \in VerifyAnswers, createOk \in BOOLEAN :
          tpc = "idle" /\ Generate("ubuntu", answer, createOk)
    \/ \E id \in ContainerIDs, outcome \in StartOutcomes :
          RunTestSpec(id, outcome)
    \/ \E outcome \in ExecOutcomes : RunExec(outcome)
    \/ \E outcome \in StopOutcomes : RunStop(outcome)

SpecVerify == InitVerify /\ [][NextVerify]_vars

-----------------------------------------------------------------------------
(* Properties of Resolve *)

Success == pc = "done" /\ ret.err = nil

Count(s, n) == Cardinality({i \in 1..Len(s) : s[i] = n})

NoDuplicates(s) == \A i, j \in 1..Len(s) : s[i] = s[j] => i = j

IsPrefix(s, t) == Len(s) <= Len(t) /\ SubSeq(t, 1, Len(s)) = s

\* the names meta.yml of `n` lists, none when the store has no such feature
DirectDeps(n) == IF n \in DOMAIN commit THEN Range(commit[n].Dependencies) ELSE {}

\* S together with everything reachable from S along dependencies
RECURSIVE Closure(_)
Closure(S) ==
    LET T == S \cup UNION {DirectDeps(n) : n \in S}
    IN IF T = S THEN S ELSE Closure(T)

Acyclic == \A n \in DOMAIN commit : n \notin Closure(DirectDeps(n))

\* C1: when Resolve succeeds, every dependency of a feature of the ordered
\* output stands at a strictly smaller index than the feature.
C1_DependenciesFirst ==
    Success =>
        \A i \in 1..Len(ret.slice) :
            \A d \in DirectDeps(ret.slice[i]) :
                \E j \in 1..(i - 1) : ret.slice[j] = d

\* a successful resolution whose output holds a feature with two different
\* dependencies, one of which has a dependency of its own
C1_Witness ==
    /\ Success
    /\ \E n \in Range(ret.slice) :
          /\ Cardinality(DirectDeps(n)) = 2
          /\ \E d \in DirectDeps(n) : DirectDeps(d) # {}

\* C2: over an acyclic store no feature is fetched twice or appended twice,
\* and after a successful Resolve the fetched names, the ordered names and
\* the map keys are the same names, each fetched and appended exactly once.
C2_FetchedAndEmittedOnce ==
    Acyclic =>
        /\ NoDuplicates(fetched)
        /\ NoDuplicates(slice)
        /\ Success =>
              \A n \in DOMAIN ret.result :
                  Count(fetched, n) = 1 /\ Count(ret.slice, n) = 1

\* a successful resolution in which one feature was asked for twice at the
\* top level and is also a dependency of another resolved feature
C2_Witness ==
    /\ Success
    /\ Acyclic
    /\ \E n \in Range(ret.slice) :
          /\ \E m \in Range(ret.slice) \ {n} : n \in DirectDeps(m)
          /\ \E i \in 1..Len(names) : names[i] = n
    /\ Len(names) = 2
    /\ Len(ret.slice) >= 2

Names(err, name) == name \in Range(err)

\* C4: when a requested or transitively required name is absent from the
\* store, Resolve fails with an error naming that missing feature and
\* returns the empty sequence and the empty map.
C4_NotFoundNamesFeature ==
    (pc = "done" /\ ret.err # ErrHead
        /\ Closure(Range(names)) \ DOMAIN commit # {}) =>
        /\ ret.err # nil
        /\ fetched # <<>>
        /\ fetched[Len(fetched)] \notin DOMAIN commit
        /\ Names(ret.err, fetched[Len(fetched)])
        /\ ret.slice = <<>>
        /\ ret.result = EmptyMap

\* the error the in-memory store's test expects of an empty Resolve
ErrNoFeatures == <<"No features provided to resolve">>

\* C5: Resolve of no names fails with the error "No features provided to
\* resolve".
C5_EmptyInputFails ==
    (pc = "done" /\ names = <<>> /\ ret.err # ErrHead) => ret.err = ErrNoFeatures

\* C6: top-level names are processed in the caller's order and the ordered
\* output only grows at its end: between two top-level names the output is
\* exactly the closure of the names processed so far, every step of the loop
\* keeps the output so far as a prefix, and a name is appended only when it
\* is not resolved yet.
C6_PrefixStable ==
    /\ [](pc = "loop" /\ stack = <<>> =>
            Range(slice) = Closure(Range(SubSeq(names, 1, idx - 1))))
    /\ [][/\ IsPrefix(slice, slice')
          /\ \A i \in (Len(slice) + 1)..Len(slice') :
                slice'[i] \notin DOMAIN result
          /\ pc' = "done" /\ ret'.err = nil => ret'.slice = slice]_vars

\* a successful resolution of two names where the second name added
\* features after those of the first
C6_Witness ==
    /\ Success
    /\ Len(names) = 2
    /\ names[1] # names[2]
    /\ Closure({names[2]}) \ Closure({names[1]}) # {}
    /\ Closure({names[2]}) \cap Closure({names[1]}) # {}

-----------------------------------------------------------------------------
(* Properties of Generate *)

Generated == genPc = "done" /\ dockerfile # <<>>

\* C7: the first line of the composed Dockerfile is FROM followed by the
\* base image the caller selected.
C7_HeaderSelectsBaseImage ==
    Generated => dockerfile[1] = "FROM " \o baseImage \o "\n"

CopyDatas == {"COPY f /f"}

NoCopy(features) ==
    \A i \in 1..Len(features) : features[i].DockerData \notin CopyDatas

\* the text of the feature blocks: per feature, in order, the comment line
\* naming it and its snippet as it is
RECURSIVE ExpectedBlocks(_)
ExpectedBlocks(features) ==
    IF features = <<>> THEN ""
    ELSE "# " \o features[1].Name \o "\n" \o features[1].DockerData \o "\n"
            \o ExpectedBlocks(Tail(features))

\* C8: for features without a COPY directive the composed document is the
\* header line, then per feature in the given order the comment naming it
\* and its snippet unchanged, then the line CMD /bin/bash.
C8_VerbatimComposition ==
    (Generated /\ NoCopy(fs)) =>
        /\ \E image \in BaseImages : dockerfile[1] = "FROM " \o image \o "\n"
        /\ Bytes(dockerfile)
              = dockerfile[1] \o ExpectedBlocks(fs) \o "CMD /bin/bash\n"

\* a document composed of feature B with a snippet followed by feature A
\* with another
C8_Witness ==
    /\ Generated
    /\ NoCopy(fs)
    /\ Len(fs) = 2
    /\ fs[1].Name = "B" /\ fs[1].DockerData = "RUN a"
    /\ fs[2].Name = "A" /\ fs[2].DockerData = ""
    /\ Bytes(dockerfile) = "FROM ubuntu:latest\n# B\nRUN a\n# A\n\nCMD /bin/bash\n"

-----------------------------------------------------------------------------
(* Properties of DockerfileWriter *)

IsCopy(directive) == directive[1] = "COPY"

\* C9: AppendFeature of a feature named X only appends to the buffer, one
\* line per directive in snippet order; a COPY directive with a source and
\* a destination is written as COPY X/<source> <destination>, a directive
\* of another kind as it stands; a call that returns no error has written
\* every directive.
C9_CopySourcePrefixed ==
    [][(ncalls' = ncalls + 1 /\ wcall'.op = "AppendFeature") =>
        LET feature == wcall'.feature
            sn == feature.Snippet
            n == Len(buf') - Len(buf)
        IN /\ IsPrefix(buf, buf')
           /\ n <= Len(sn)
           /\ werr' = nil => n = Len(sn)
           /\ \A i \in 1..n :
                 IF IsCopy(sn[i])
                 THEN /\ Len(sn[i]) >= 3
                      /\ buf'[Len(buf) + i]
                            = "COPY " \o feature.Meta.Name \o "/" \o sn[i][2]
                                \o " " \o sn[i][3] \o "\n"
                 ELSE buf'[Len(buf) + i] = Unwords(sn[i]) \o "\n"]_vars

\* feature B, whose snippet is a RUN followed by a COPY, appended after a
\* raw line
C9_Witness ==
    /\ ncalls = 2
    /\ wcall.op = "AppendFeature"
    /\ werr = nil
    /\ wcall.feature.Meta.Name = "B"
    /\ wcall.feature.Snippet = <<<<"RUN", "a">>, <<"COPY", "f", "/d">>>>
    /\ buf = <<"FROM ubuntu\n", "RUN a\n", "COPY B/f /d\n">>

Malformed(directive) == IsCopy(directive) /\ Len(directive) < 3

\* C10: AppendFeature of a feature whose snippet holds a COPY directive
\* with no word or one word after the verb returns an error, and the error
\* names the feature.
C10_MalformedCopyNamesFeature ==
    (/\ wcall.op = "AppendFeature"
     /\ Parse(wcall.feature.Snippet).err = nil
     /\ \E i \in 1..Len(wcall.feature.Snippet) :
           Malformed(wcall.feature.Snippet[i])) =>
        /\ werr # nil
        /\ Names(werr, wcall.feature.Meta.Name)

-----------------------------------------------------------------------------
(* Properties of RunTestSpec *)

\* Generate returned without error: the test spec file is the one it wrote
Persisted == genPc = "done" /\ genErr = nil

\* C11: the test plan that generateTestSpec persisted, read back by
\* readTestSpec, has in order one {feature, cmd} entry per feature of the
\* feature sequence, the features without a test instruction included; the
\* plan RunTestSpec runs is that plan.
C11_PlanRoundTrip ==
    Persisted =>
        LET read == readTestSpec(testSpec) IN
        /\ read.err = nil
        /\ Len(read.val) = Len(fs)
        /\ \A i \in 1..Len(fs) :
              /\ DOMAIN read.val[i] = {"Feature", "Cmd"}
              /\ read.val[i].Feature = fs[i].Name
              /\ read.val[i].Cmd = fs[i].TestInstruction
        /\ tpc = "exec" => plan = read.val

C11_Witness ==
    /\ Persisted
    /\ tpc = "exec"
    /\ Len(fs) = 2
    /\ fs[1].Name = "B" /\ fs[1].TestInstruction = ""
    /\ fs[2].Name = "A" /\ fs[2].TestInstruction # ""
    /\ Len(plan) = 2
    /\ plan[1].Cmd = ""

\* dockerStart returned a running container
Started ==
    \E i \in 1..Len(runtime) :
        runtime[i].api = "StartContainer" /\ runtime[i].ok

IsExec(c) == c.api = "CreateExec"

\* the calls of dockerExec: each begins with one CreateExec
Execs == SelectSeq(runtime, IsExec)

\* C12: once the container has started, RunTestSpec hands every plan entry
\* to dockerExec exactly once and in plan order, whatever the outcomes:
\* the executions made so far are the plan's entries before the loop
\* position, a failing entry is followed by the next one, and the loop is
\* only left behind the last entry.
C12_EveryEntryOnceInOrder ==
    /\ [](Started =>
            /\ Len(Execs) = ti - 1
            /\ ti <= Len(plan) + 1
            /\ \A i \in 1..Len(Execs) : Execs[i].arg[2] = plan[i].Cmd
            /\ tpc = "done" => Len(Execs) = Len(plan))
    /\ [][(Started /\ tpc = "exec" /\ ti <= Len(plan)) =>
            (tpc' = "exec" /\ ti' = ti + 1)]_vars

C12_Witness ==
    /\ tpc = "done"
    /\ Started
    /\ Len(plan) = 2
    /\ Len(Execs) = 2
    /\ \E i \in 1..Len(runtime) :
          /\ runtime[i].api = "InspectExec"
          /\ runtime[i].arg[2] = plan[1].Cmd
          /\ runtime[i].exit > 0
          /\ \E j \in (i+1)..Len(runtime) :
                runtime[j].api = "CreateExec" /\ runtime[j].arg[2] = plan[2].Cmd

\* dockerStop returned without error
Stopped == tpc = "done" /\ container.state = "removed"

ExitedNonZero(c) == c.api = "InspectExec" /\ c.ok /\ c.exit > 0

\* the plan entries whose instruction ran and exited with a non-zero status
NonZeroExits == Len(SelectSeq(runtime, ExitedNonZero))

\* C13: when the container starts and stops without error, failedTests is
\* the number of plan entries whose instruction exited with a non-zero
\* status, and RunTestSpec returns an error exactly when that number is
\* greater than zero.
C13_CountsNonZeroExits ==
    (Started /\ Stopped) =>
        /\ failedTests = NonZeroExits
        /\ (testErr # nil) <=> (NonZeroExits > 0)

\* CreateContainer returned a container
Created == container.state # "none"

RemovalAttempted ==
    \E i \in 1..Len(runtime) :
        runtime[i].api = "RemoveContainer" /\ runtime[i].arg = container.ID

\* C14: when RunTestSpec has returned, the container it created has been
\* handed to StopContainer and to RemoveContainer, on every exit path: the
\* plan completed, the start of the created container failed, or the stop
\* reported an error.
C14_CreatedContainerRemoved ==
    (tpc = "done" /\ Created) =>
        /\ \E i \in 1..Len(runtime) : runtime[i].api = "StopContainer"
        /\ RemovalAttempted

-----------------------------------------------------------------------------
(* Termination of Resolve *)

\* the feature is in the store and is reachable from its own dependencies
OnCycle(n) == n \in DOMAIN commit /\ n \in Closure(DirectDeps(n))

\* a requested name reaches a dependency cycle of the store
ReachesCycle == \E n \in Closure(Range(names)) : OnCycle(n)

\* a requested name reaches a name the store has no feature for
ReachesAbsent == Closure(Range(names)) \ DOMAIN commit # {}

\* a call of resolve is made for a feature whose call is still in progress
Revisits ==
    \E i, j \in 1..Len(stack) : i < j /\ stack[i].name = stack[j].name

-----------------------------------------------------------------------------
(* Failure of AppendFeature *)

\* C16: a failed AppendFeature (snippet parse error or malformed COPY)
\* leaves the writer's buffer as it was before the call: none of the
\* failing feature's directives is in it.
C16_FailedAppendWritesNothing ==
    [][(ncalls' = ncalls + 1 /\ wcall'.op = "AppendFeature" /\ werr' # nil)
          => buf' = buf]_vars

-----------------------------------------------------------------------------
(* The container of a test run *)

CallsOf(api) == {i \in 1..Len(runtime) : runtime[i].api = api}

ExecCalls == CallsOf("CreateExec") \cup CallsOf("StartExec") \cup CallsOf("InspectExec")

\* the errors of readTestSpec and of dockerStart
LoadOrStartErrors ==
    {ErrOpen, ErrDecode, ErrNewClient, ErrCreateContainer, ErrStartContainer}

\* C17: a run of RunTestSpec creates at most one container; no instruction
\* is executed unless the plan was loaded and the container started, and a
\* run that fails to load or to start returns that error without any
\* execution; every execution targets the started container and comes
\* after its start; the container is stopped once, after the last
\* execution.
C17_OneContainerLifetime ==
    /\ Cardinality(CallsOf("CreateContainer")) <= 1
    /\ Cardinality(CallsOf("StartContainer")) <= 1
    /\ Cardinality(CallsOf("StopContainer")) <= 1
    /\ ~Started => ExecCalls = {} /\ CallsOf("StopContainer") = {}
    /\ (tpc = "done" /\ ~Started) => testErr \in LoadOrStartErrors
    /\ \A e \in ExecCalls :
          /\ runtime[e].arg[1] = container.ID
          /\ \E s \in CallsOf("StartContainer") : s < e /\ runtime[s].ok
    /\ \A t \in CallsOf("StopContainer") :
          /\ runtime[t].arg = container.ID
          /\ \A e \in ExecCalls : e < t
          /\ Len(Execs) = Len(plan)
    /\ (tpc = "done" /\ Started) => Cardinality(CallsOf("StopContainer")) = 1

C17_Witness ==
    /\ tpc = "done"
    /\ Started
    /\ Len(plan) = 2
    /\ Cardinality(CallsOf("InspectExec")) = 2
    /\ Cardinality(CallsOf("StopContainer")) = 1
    /\ container.state = "removed"

\* the errors of the docker client while an instruction is executed
ExecErrors == {ErrCreateExec, ErrStartExec, ErrInspectExec}

\* C18: when the docker client fails to create, start or inspect the exec
\* of a plan entry, the failure is not counted as a failing test, no later
\* entry is executed, and the run returns that error.
C18_RuntimeFailureAborts ==
    \A i \in ExecCalls :
        ~runtime[i].ok =>
            /\ failedTests = NonZeroExits
            /\ \A j \in CallsOf("CreateExec") : j < i
            /\ tpc = "done" => testErr \in ExecErrors

====
